---- MODULE Spec2Model ----
(***************************************************************************)
(* Model of main.py: the recursive file mover.                             *)
(*                                                                         *)
(* A name is a sequence of characters, a path is a sequence of names       *)
(* relative to disk_path (so <<P1, DirS, NameA>> is disk_path/P1/s/a.dcm). *)
(* The tree holds regular files and directories.  The content of a file    *)
(* is a token; every file of the initial tree carries its own token (the   *)
(* path it starts at), so that a lost, duplicated or overwritten content   *)
(* is visible in the state.                                                *)
(***************************************************************************)
EXTENDS Naturals, Sequences, FiniteSets, TLC

\* Most regular files in the initial tree under the patient directories.
MaxFiles == 2

(***************************************************************************)
(* Names and paths of the trees that are explored.                         *)
(***************************************************************************)
ExtLower == <<".", "d", "c", "m">>
ExtUpper == <<".", "D", "C", "M">>
Exts == {ExtLower, ExtUpper}

NameA == <<"a">> \o ExtLower
NameB == <<"b">> \o ExtLower
NameN == <<"n", ".", "t", "x", "t">>
DirS == <<"s">>
DirT == <<"t">>
P1 == <<"P", "1">>
P2 == <<"P", "2">>

FileNames == {NameA, NameB, NameN}
PatientNames == {P1, P2}
\* A regular file directly in the root: an entry that is no patient directory.
RootFile == <<NameN>>
\* The directories a patient may hold: its top level, s, s/t, and a
\* directory whose own name ends with the extension.
TreeDirs(p) == {<<p>>, <<p, DirS>>, <<p, DirS, DirT>>, <<p, NameA>>}
AllDirs == UNION {TreeDirs(p) : p \in PatientNames}
Slots == {Append(d, n) : d \in AllDirs, n \in FileNames}

RECURSIVE UpTo(_, _)
\* The subsets of S with at most n elements.
UpTo(S, n) ==
    IF n = 0 THEN {{}}
    ELSE LET R == UpTo(S, n - 1) IN R \cup {T \cup {x} : T \in R, x \in S}

\* The sequences that enumerate the set S in some order.
Perms(S) ==
    {q \in [1..Cardinality(S) -> S] : \A a, b \in 1..Cardinality(S) : a # b => q[a] # q[b]}

(***************************************************************************)
(* os.path and str                                                         *)
(***************************************************************************)
basename(path) == path[Len(path)]
dirname(path) == SubSeq(path, 1, Len(path) - 1)
join(dir, name) == Append(dir, name)

endswith(name, suffix) ==
    /\ Len(suffix) <= Len(name)
    /\ SubSeq(name, Len(name) - Len(suffix) + 1, Len(name)) = suffix

\* Code points of the characters used in names (Python compares str by code point).
Code ==
    [c \in {".", "1", "2", "C", "D", "M", "P", "a", "b", "c", "d", "m", "n", "s", "t", "x"} |->
        CASE c = "." -> 46 [] c = "1" -> 49 [] c = "2" -> 50 [] c = "C" -> 67
          [] c = "D" -> 68 [] c = "M" -> 77 [] c = "P" -> 80 [] c = "a" -> 97
          [] c = "b" -> 98 [] c = "c" -> 99 [] c = "d" -> 100 [] c = "m" -> 109
          [] c = "n" -> 110 [] c = "s" -> 115 [] c = "t" -> 116 [] c = "x" -> 120]

RECURSIVE StrLess(_, _)
\* a < b for two str
StrLess(a, b) ==
    IF a = <<>> THEN b # <<>>
    ELSE IF b = <<>> THEN FALSE
    ELSE IF Code[Head(a)] # Code[Head(b)] THEN Code[Head(a)] < Code[Head(b)]
    ELSE StrLess(Tail(a), Tail(b))

RECURSIVE Insert(_, _)
Insert(x, q) ==
    IF q = <<>> THEN <<x>>
    ELSE IF StrLess(x, Head(q)) THEN <<x>> \o q
    ELSE <<Head(q)>> \o Insert(x, Tail(q))

RECURSIVE sort(_)
\* list.sort() on a list of str
sort(q) == IF q = <<>> THEN <<>> ELSE Insert(Head(q), sort(Tail(q)))

VARIABLES
    fs,                 \* regular files: path |-> content
    dirs,               \* the directories (paths); the program creates and removes none
    file_extension,     \* args.extension
    pc,                 \* "main", "loop", "moving", "done", "crashed"
    run,                \* 1 for the first invocation of main, 2 for a second one
    patients,           \* main: the list returned by list_patient_directories
    k,                  \* main: position of the for loop over patients
    patient_dcm_files,  \* process_patient_directory: the list returned by list_dcm_files
    i,                  \* move_dcm_files: position of the for loop over patient_dcm_files
    moved_files_count,  \* move_dcm_files: the counter
    total_moved_files,  \* main: the accumulator
    outcomes,           \* per candidate of this pass: "moved", "skipped" (warning), "failed" (error)
    report,             \* what process_patient_directory logged last
    history             \* what happened so far, for stating the properties

vars ==
    <<fs, dirs, file_extension, pc, run, patients, k, patient_dcm_files, i,
      moved_files_count, total_moved_files, outcomes, report, history>>

(***************************************************************************)
(* The filesystem                                                          *)
(***************************************************************************)
isdir(path) == path \in dirs
isfile(files, path) == path \in DOMAIN files
\* Mutant: os.path.isfile in place of os.path.exists.
exists_file(files, path) == path \in DOMAIN files
\* Mutant: the existence is looked up in a listing made before the loop.
exists_at_listing(files, path) == path \in DOMAIN history.fsPass \/ path \in dirs
\* Mutant: the existence check is left out.
exists_never(files, path) == FALSE
\* os.path.exists: an entry of any type
exists(files, path) == isfile(files, path) \/ isdir(path)

\* os.listdir: the names of the entries directly in dir
listdir(files, dir) ==
    {basename(p) : p \in {q \in DOMAIN files \cup dirs : Len(q) = Len(dir) + 1 /\ dirname(q) = dir}}

\* Mutant: the file is copied and the source is kept.
rename_keeps_source(files, src, dst) ==
    [p \in DOMAIN files \cup {dst} |-> IF p = dst THEN files[src] ELSE files[p]]
\* os.rename of a regular file: an existing regular file at dst is replaced
rename(files, src, dst) ==
    [p \in (DOMAIN files \ {src}) \cup {dst} |-> IF p = dst THEN files[src] ELSE files[p]]

\* shutil.copy2 of a regular file
copy2(files, src, dst) ==
    [p \in DOMAIN files \cup {dst} |-> IF p = dst THEN files[src] ELSE files[p]]

Faults == {"none", "rename", "unlink"}

\* shutil.move(src, dst).  fault is what the operating system refuses:
\* nothing; os.rename and the copy that shutil.move falls back to; or
\* os.rename and then os.unlink of the source after the copy was made.
\* (A refused os.rename followed by a copy and an unlink that both succeed
\* leaves the same tree as "none".)
shutil_move(files, src, dst, fault) ==
    LET real_dst == IF isdir(dst) THEN join(dst, basename(src)) ELSE dst
    IN  IF isdir(dst) /\ exists(files, real_dst) THEN [raised |-> TRUE, fs |-> files]
        ELSE IF fault = "none" THEN [raised |-> FALSE, fs |-> rename(files, src, real_dst)]
        ELSE IF fault = "rename" THEN [raised |-> TRUE, fs |-> files]
        ELSE [raised |-> TRUE, fs |-> copy2(files, src, real_dst)]

(***************************************************************************)
(* list_patient_directories                                                *)
(***************************************************************************)
\* Mutant: a failed enumeration is not turned into the empty list.
list_patient_directories_unguarded(listing, ok) ==
    sort(SelectSeq(listing, LAMBDA d : <<d>> \in dirs))
\* listing is os.listdir(disk_path) in the order the system gave it; ok is
\* FALSE when the enumeration raised.
list_patient_directories(listing, ok) ==
    IF ok THEN sort(SelectSeq(listing, LAMBDA d : isdir(<<d>>))) ELSE <<>>

(***************************************************************************)
(* list_dcm_files: os.walk, top down, errors of scandir ignored            *)
(***************************************************************************)
subdirs(dir) == {d \in dirs : Len(d) = Len(dir) + 1 /\ dirname(d) = dir}
matching(files, dir, ext) ==
    {p \in DOMAIN files : Len(p) = Len(dir) + 1 /\ dirname(p) = dir /\ endswith(basename(p), ext)}

RECURSIVE walk(_, _, _, _)
RECURSIVE walk_each(_, _, _, _)
\* The lists list_dcm_files can return for the subtree of dir: the matching
\* files of dir in some order, then the walk of each subdirectory in some
\* order.  A directory in unreadable yields nothing and is not descended.
walk(files, dir, ext, unreadable) ==
    IF dir \in unreadable THEN {<<>>}
    ELSE {f \o w : f \in Perms(matching(files, dir, ext)),
                   w \in UNION {walk_each(files, o, ext, unreadable) : o \in Perms(subdirs(dir))}}
walk_each(files, dseq, ext, unreadable) ==
    IF dseq = <<>> THEN {<<>>}
    ELSE {a \o b : a \in walk(files, Head(dseq), ext, unreadable),
                   b \in walk_each(files, Tail(dseq), ext, unreadable)}

\* Mutant: the nested files are listed a second time.
list_dcm_files_twice(files, patient_path, ext, unreadable) ==
    {w \o SelectSeq(w, LAMBDA q : Len(q) > Len(patient_path) + 1) :
        w \in walk(files, patient_path, ext, unreadable)}
list_dcm_files(files, patient_path, ext, unreadable) == walk(files, patient_path, ext, unreadable)

(***************************************************************************)
(* Initial state: main is about to start on some tree                      *)
(***************************************************************************)
NoReport == [kind |-> "none", patient |-> <<>>, before |-> 0, moved |-> 0, after |-> 0]

\* The directories above a path, the root excluded.
Ancestors(path) == {SubSeq(path, 1, n) : n \in 1..(Len(path) - 1)}

\* The matching regular files anywhere under dir.
subtree(files, dir, ext) ==
    {p \in DOMAIN files : Len(p) > Len(dir) /\ SubSeq(p, 1, Len(dir)) = dir
                          /\ endswith(basename(p), ext)}

Init ==
    \E F \in UpTo(Slots, MaxFiles), X \in SUBSET {<<p, NameA>> : p \in PatientNames}, e \in Exts :
        LET D == {<<p>> : p \in PatientNames} \cup X \cup UNION {Ancestors(f) : f \in F}
            tree == [p \in F \cup {RootFile} |-> p]
        IN  /\ F \cap D = {}
            /\ fs = tree
            /\ dirs = D
            /\ file_extension = e
            /\ pc = "main"
            /\ run = 1
            /\ patients = <<>>
            /\ k = 1
            /\ patient_dcm_files = <<>>
            /\ i = 1
            /\ moved_files_count = 0
            /\ total_moved_files = 0
            /\ outcomes = <<>>
            /\ report = NoReport
            /\ history = [fsRun |-> tree, fsPass |-> tree, calls |-> 0, root_failed |-> FALSE,
                          whole |-> TRUE, clean |-> {}]

(***************************************************************************)
(* main, up to the for loop: list the patients                             *)
(***************************************************************************)
ListPatients ==
    /\ pc = "main"
    /\ \E listing \in Perms(listdir(fs, <<>>)), ok \in BOOLEAN :
        /\ patients' = list_patient_directories(listing, ok)
        /\ history' = [history EXCEPT !.root_failed = ~ok]
    /\ total_moved_files' = 0
    /\ k' = 1
    /\ pc' = "loop"
    /\ UNCHANGED <<fs, dirs, file_extension, run, patient_dcm_files, i, moved_files_count,
                   outcomes, report>>

(***************************************************************************)
(* process_patient_directory, up to the call of move_dcm_files             *)
(***************************************************************************)
patient_path == <<patients[k]>>

\* The walk missed no matching file of the patient.
Whole(found) == Len(found) = Cardinality(subtree(fs, patient_path, file_extension))

\* No candidate: "No DCM files found", return 0, and main goes to the next patient.
NoFilesFound ==
    /\ pc = "loop"
    /\ k <= Len(patients)
    /\ \E unreadable \in SUBSET (TreeDirs(patients[k]) \cap dirs) :
        \E found \in list_dcm_files(fs, patient_path, file_extension, unreadable) :
            /\ found = <<>>
            /\ history' = [history EXCEPT
                   !.clean = IF run = 1 /\ Whole(found) THEN @ \cup {patients[k]} ELSE @]
    /\ report' = [NoReport EXCEPT !.kind = "nofiles", !.patient = patients[k]]
    /\ total_moved_files' = total_moved_files + 0
    /\ k' = k + 1
    /\ UNCHANGED <<fs, dirs, file_extension, pc, run, patients, patient_dcm_files, i,
                   moved_files_count, outcomes>>

\* Some candidates: log the count and enter the loop of move_dcm_files.
FilesFound ==
    /\ pc = "loop"
    /\ k <= Len(patients)
    /\ \E unreadable \in SUBSET (TreeDirs(patients[k]) \cap dirs) :
        \E found \in list_dcm_files(fs, patient_path, file_extension, unreadable) :
            /\ found # <<>>
            /\ patient_dcm_files' = found
            /\ report' = [NoReport EXCEPT !.kind = "before", !.patient = patients[k],
                                          !.before = Len(found)]
            /\ history' = [history EXCEPT !.fsPass = fs, !.whole = Whole(found)]
    /\ i' = 1
    /\ moved_files_count' = 0
    /\ outcomes' = <<>>
    /\ pc' = "moving"
    /\ UNCHANGED <<fs, dirs, file_extension, run, patients, k, total_moved_files>>

(***************************************************************************)
(* move_dcm_files: one iteration of the for loop                           *)
(***************************************************************************)
dcm_file == patient_dcm_files[i]
\* Mutant: the file goes one directory up instead of to the patient directory.
destination_one_up == join(dirname(dirname(dcm_file)), basename(dcm_file))
destination_path == join(patient_path, basename(dcm_file))

InLoop == pc = "moving" /\ i <= Len(patient_dcm_files)

\* The destination is free and shutil.move returns: count the file.
MoveFile ==
    /\ InLoop
    /\ ~exists(fs, destination_path)
    /\ \E fault \in Faults :
        LET r == shutil_move(fs, dcm_file, destination_path, fault)
        IN  /\ ~r.raised
            /\ fs' = r.fs
    /\ moved_files_count' = moved_files_count + 1
    /\ outcomes' = Append(outcomes, "moved")
    /\ history' = [history EXCEPT !.calls = @ + 1]
    /\ i' = i + 1
    /\ UNCHANGED <<dirs, file_extension, pc, run, patients, k, patient_dcm_files,
                   total_moved_files, report>>

\* Mutant: the exception is caught outside the for loop, which it ends.
MoveRaisesAborts ==
    /\ pc = "moving" /\ i <= Len(patient_dcm_files)
    /\ ~exists(fs, destination_path)
    /\ \E fault \in Faults :
        LET r == shutil_move(fs, dcm_file, destination_path, fault)
        IN  /\ r.raised
            /\ fs' = r.fs
    /\ outcomes' = Append(outcomes, "failed")
    /\ history' = [history EXCEPT !.calls = @ + 1]
    /\ i' = Len(patient_dcm_files) + 1
    /\ UNCHANGED <<dirs, file_extension, pc, run, patients, k, patient_dcm_files,
                   moved_files_count, total_moved_files, report>>

\* The destination is free and shutil.move raises: log the error, go on.
MoveRaises ==
    /\ InLoop
    /\ ~exists(fs, destination_path)
    /\ \E fault \in Faults :
        LET r == shutil_move(fs, dcm_file, destination_path, fault)
        IN  /\ r.raised
            /\ fs' = r.fs
    /\ outcomes' = Append(outcomes, "failed")
    /\ history' = [history EXCEPT !.calls = @ + 1]
    /\ i' = i + 1
    /\ UNCHANGED <<dirs, file_extension, pc, run, patients, k, patient_dcm_files,
                   moved_files_count, total_moved_files, report>>

\* The destination exists: log the warning, go on.
SkipExisting ==
    /\ InLoop
    /\ exists(fs, destination_path)
    /\ outcomes' = Append(outcomes, "skipped")
    /\ i' = i + 1
    /\ UNCHANGED <<fs, dirs, file_extension, pc, run, patients, k, patient_dcm_files,
                   moved_files_count, total_moved_files, report, history>>

(***************************************************************************)
(* process_patient_directory, after move_dcm_files returned                *)
(***************************************************************************)
LoopDone == pc = "moving" /\ i > Len(patient_dcm_files)

\* The pass of the first run listed every matching file and no move failed.
CleanPass == run = 1 /\ history.whole /\ \A n \in 1..Len(outcomes) : outcomes[n] # "failed"

new_dcm_files_count ==
    Cardinality({name \in listdir(fs, patient_path) : endswith(name, file_extension)})

\* os.listdir answers: log both counts, return; main adds to the total.
Recount ==
    /\ LoopDone
    /\ report' = [report EXCEPT !.kind = "counts", !.moved = moved_files_count,
                                !.after = new_dcm_files_count]
    /\ total_moved_files' = total_moved_files + moved_files_count
    /\ k' = k + 1
    /\ pc' = "loop"
    /\ patient_dcm_files' = <<>>
    /\ i' = 1
    /\ moved_files_count' = 0
    /\ outcomes' = <<>>
    /\ history' = [history EXCEPT !.clean = IF CleanPass THEN @ \cup {patients[k]} ELSE @]
    /\ UNCHANGED <<fs, dirs, file_extension, run, patients>>

\* os.listdir raises: nothing catches it, neither here nor in main.
RecountRaises ==
    /\ LoopDone
    /\ pc' = "crashed"
    /\ history' = [history EXCEPT !.clean = IF CleanPass THEN @ \cup {patients[k]} ELSE @]
    /\ UNCHANGED <<fs, dirs, file_extension, run, patients, k, patient_dcm_files, i,
                   moved_files_count, total_moved_files, outcomes, report>>

(***************************************************************************)
(* main, after the for loop                                                *)
(***************************************************************************)
Finish ==
    /\ pc = "loop"
    /\ k > Len(patients)
    /\ pc' = "done"
    /\ UNCHANGED <<fs, dirs, file_extension, run, patients, k, patient_dcm_files, i,
                   moved_files_count, total_moved_files, outcomes, report, history>>

\* main is invoked a second time on the same root with the same arguments.
Rerun ==
    /\ pc \in {"done", "crashed"}
    /\ run = 1
    /\ run' = 2
    /\ pc' = "main"
    /\ patients' = <<>>
    /\ k' = 1
    /\ patient_dcm_files' = <<>>
    /\ i' = 1
    /\ moved_files_count' = 0
    /\ total_moved_files' = 0
    /\ outcomes' = <<>>
    /\ report' = NoReport
    /\ history' = [history EXCEPT !.fsRun = fs, !.fsPass = fs, !.calls = 0,
                                  !.root_failed = FALSE, !.whole = TRUE]
    /\ UNCHANGED <<fs, dirs, file_extension>>

Next ==
    \/ ListPatients
    \/ NoFilesFound
    \/ FilesFound
    \/ MoveFile
    \/ MoveRaises
    \/ SkipExisting
    \/ Recount
    \/ RecountRaises
    \/ Finish

Spec == Init /\ [][Next]_vars

NextTwice == Next \/ Rerun

SpecTwice == Init /\ [][NextTwice]_vars

(***************************************************************************)
(* Vocabulary of the properties.  These definitions read the state only;   *)
(* they do not go through the operators that model the code.               *)
(***************************************************************************)
\* An entry of any type is at path.
Present(files, path) == path \in DOMAIN files \/ path \in dirs
\* The top-level path of the patient that carries the basename of path.
TopOf(path) == <<path[1], path[Len(path)]>>
\* The candidate this iteration is about.
Candidate == patient_dcm_files[i]
\* The regular files under a patient directory.
Under(files, p) == {q \in DOMAIN files : Len(q) >= 2 /\ q[1] = p}
\* The positions of the list already gone through.
Processed == 1..(i - 1)
\* The candidates of the list that have left their place and are, content
\* intact, at the top level of the patient directory.
Relocated ==
    {n \in Processed :
        /\ patient_dcm_files[n] \notin DOMAIN fs
        /\ TopOf(patient_dcm_files[n]) \in DOMAIN fs
        /\ fs[TopOf(patient_dcm_files[n])] = history.fsPass[patient_dcm_files[n]]}
\* The candidates that are where they were, content intact.
InPlace ==
    {n \in Processed :
        /\ patient_dcm_files[n] \in DOMAIN fs
        /\ fs[patient_dcm_files[n]] = history.fsPass[patient_dcm_files[n]]}
NoFailure == \A n \in 1..Len(outcomes) : outcomes[n] # "failed"

(***************************************************************************)
(* C1                                                                      *)
(***************************************************************************)
\* C1 as stated: whenever move_dcm_files processes a candidate whose
\* destination does not exist, afterwards the file is gone from its
\* original path and is at the destination with the same content.
C1_FreeDestinationMoved ==
    [][(pc = "moving" /\ i <= Len(patient_dcm_files) /\ ~Present(fs, TopOf(Candidate)))
        => /\ Candidate \notin DOMAIN fs'
           /\ TopOf(Candidate) \in DOMAIN fs'
           /\ fs'[TopOf(Candidate)] = fs[Candidate]]_vars

\* C1 amended: whenever move_dcm_files processes a candidate whose
\* destination does not exist and the move does not fail (the file is
\* counted as moved), afterwards the file is gone from its original path and
\* is at the destination with the same content.
C1_SuccessfulMoveIntact ==
    [][(/\ pc = "moving" /\ i <= Len(patient_dcm_files)
        /\ ~Present(fs, TopOf(Candidate))
        /\ moved_files_count' = moved_files_count + 1)
        => /\ Candidate \notin DOMAIN fs'
           /\ TopOf(Candidate) \in DOMAIN fs'
           /\ fs'[TopOf(Candidate)] = fs[Candidate]]_vars

\* A nested candidate was moved: it is counted, gone from its place and at
\* the top level with its content.
C1_Witness ==
    /\ pc = "moving"
    /\ moved_files_count = 1
    /\ Len(outcomes) = 1
    /\ Len(patient_dcm_files[1]) > 2
    /\ Relocated = {1}

(***************************************************************************)
(* C2                                                                      *)
(***************************************************************************)
\* C2: whenever move_dcm_files processes a candidate whose destination
\* exists (an entry of any type, the candidate itself included), the
\* filesystem is left as it is, shutil.move is not called, the count is not
\* incremented, and the loop goes on with a warning.
C2_SkipIsNoOp ==
    [][(pc = "moving" /\ i <= Len(patient_dcm_files) /\ Present(fs, TopOf(Candidate)))
        => /\ fs' = fs
           /\ history'.calls = history.calls
           /\ moved_files_count' = moved_files_count
           /\ outcomes' = Append(outcomes, "skipped")
           /\ i' = i + 1]_vars

\* Two candidates were skipped: one that already sits at the top level
\* (source and destination are one path) and a nested one whose basename is
\* taken at the top level; nothing was called and the tree is as it was.
C2_Witness ==
    /\ pc = "moving"
    /\ outcomes = <<"skipped", "skipped">>
    /\ Len(patient_dcm_files[1]) = 2
    /\ Len(patient_dcm_files[2]) > 2
    /\ fs = history.fsPass
    /\ history.calls = 0

(***************************************************************************)
(* C3                                                                      *)
(***************************************************************************)
\* C3: a regular file that is directly in a patient directory stays there
\* with its content in every step; and of the candidates of a pass that
\* share a basename at most one has been moved to the top level, every
\* candidate that was not moved being at its original path with its content.
C3_NeverOverwrites ==
    /\ [][\A p \in DOMAIN fs : Len(p) = 2 => (p \in DOMAIN fs' /\ fs'[p] = fs[p])]_vars
    /\ [](pc = "moving" =>
            /\ \A m, n \in Relocated :
                   basename(patient_dcm_files[m]) = basename(patient_dcm_files[n]) => m = n
            /\ \A n \in Processed : n \in Relocated \/ n \in InPlace)

\* Two nested candidates share a basename: the first was moved, the second
\* was skipped and is still in its place.
C3_Witness ==
    /\ pc = "moving"
    /\ outcomes = <<"moved", "skipped">>
    /\ basename(patient_dcm_files[1]) = basename(patient_dcm_files[2])
    /\ Relocated = {1}
    /\ InPlace = {2}

(***************************************************************************)
(* C4                                                                      *)
(***************************************************************************)
\* C4 as stated: when main has run a second time on the same root, the
\* total it reports is 0.
C4_SecondRunMovesNothing ==
    (run = 2 /\ pc = "done") => total_moved_files = 0

\* C4 amended: in the second run, nothing is moved for a patient whose pass
\* of the first run listed every matching file of its subtree and had no
\* failed move; when this is so for every patient, the total of the second
\* run is 0.
C4_SecondRunMovesNothingAfterCleanRun ==
    run = 2 =>
        /\ (pc = "moving" /\ patients[k] \in history.clean) =>
               (moved_files_count = 0 /\ Relocated = {})
        /\ (pc = "done" /\ history.clean = PatientNames) => total_moved_files = 0

\* The second run is over; the first run had moved a file, every pass of it
\* was clean, and the second run listed the patients and moved nothing.
C4_Witness ==
    /\ run = 2
    /\ pc = "done"
    /\ history.clean = PatientNames
    /\ Len(patients) = 2
    /\ total_moved_files = 0
    /\ \E p \in DOMAIN fs : fs[p] # p

(***************************************************************************)
(* C5                                                                      *)
(***************************************************************************)
\* C5: once move_dcm_files has returned, whether or not the listing of the
\* patient directory for the after-count fails, process_patient_directory
\* returns the moved count, main adds it to the total and goes on with the
\* next patient (nothing ends the run early).
C5_RecountFailureRecovered ==
    [][(pc = "moving" /\ i > Len(patient_dcm_files))
        => /\ pc' = "loop"
           /\ k' = k + 1
           /\ total_moved_files' = total_moved_files + moved_files_count]_vars

(***************************************************************************)
(* C6                                                                      *)
(***************************************************************************)
\* C6: throughout a pass every candidate before the current position has
\* been processed, in order, whatever happened to the ones before it (so at
\* the end of the loop every candidate of the list has been processed); the
\* count is exactly the number of candidates that were relocated; and a
\* step of the loop changes no file other than its candidate and its
\* destination.
C6_FailureDoesNotAbort ==
    /\ [](pc = "moving" =>
            /\ i <= Len(patient_dcm_files) + 1
            /\ Len(outcomes) = i - 1
            /\ moved_files_count = Cardinality(Relocated)
            /\ \A n \in Processed : n \in Relocated \/ n \in InPlace)
    /\ [][(pc = "moving" /\ i <= Len(patient_dcm_files))
            => /\ pc' = "moving"
               /\ i' = i + 1
               /\ patient_dcm_files' = patient_dcm_files
               /\ \A p \in (DOMAIN fs \cup DOMAIN fs') \ {Candidate, TopOf(Candidate)} :
                      p \in DOMAIN fs /\ p \in DOMAIN fs' /\ fs'[p] = fs[p]]_vars

\* The loop is over: the move of the first candidate failed, the second
\* candidate was moved all the same, and the count is 1.
C6_Witness ==
    /\ pc = "moving"
    /\ i > Len(patient_dcm_files)
    /\ outcomes = <<"failed", "moved">>
    /\ Relocated = {2}
    /\ moved_files_count = 1

(***************************************************************************)
(* C7                                                                      *)
(***************************************************************************)
\* C7: when the enumeration of the root has failed, the list of patients is
\* empty, no patient is processed, shutil.move is not called, the tree is
\* as it was when the run began, the total is 0 and the run does not crash.
C7_RootFailureMeansEmptyRun ==
    history.root_failed =>
        /\ patients = <<>>
        /\ pc \in {"loop", "done"}
        /\ history.calls = 0
        /\ fs = history.fsRun
        /\ total_moved_files = 0
        /\ report.kind = "none"

\* The run is over after the enumeration of the root failed, with a nested
\* file of the extension still waiting under a patient directory.
C7_Witness ==
    /\ history.root_failed
    /\ pc = "done"
    /\ total_moved_files = 0
    /\ \E p \in DOMAIN fs :
           Len(p) > 2 /\ endswith(basename(p), file_extension) /\ ~Present(fs, TopOf(p))

(***************************************************************************)
(* C8                                                                      *)
(***************************************************************************)
\* C8: the list of candidates is complete before the first move of the pass
\* (with nothing processed yet the tree is the one that was listed) and
\* does not change during the pass; it lists regular files of the extension
\* of that tree, each once; each position is processed once, in order; and
\* the place a candidate was relocated to is not a candidate of the pass.
C8_SnapshotBeforeMutation ==
    /\ [](pc = "moving" =>
            /\ (i = 1 => fs = history.fsPass)
            /\ \A n \in 1..Len(patient_dcm_files) :
                   /\ patient_dcm_files[n] \in subtree(history.fsPass, patient_path, file_extension)
                   /\ \A m \in 1..Len(patient_dcm_files) :
                          patient_dcm_files[m] = patient_dcm_files[n] => m = n
            /\ Len(outcomes) = i - 1
            /\ \A n \in Relocated : \A m \in 1..Len(patient_dcm_files) :
                   patient_dcm_files[m] # TopOf(patient_dcm_files[n]))
    /\ [][(pc = "moving" /\ pc' = "moving")
            => (patient_dcm_files' = patient_dcm_files /\ i' = i + 1
                /\ Len(outcomes') = Len(outcomes) + 1)]_vars

\* The loop is over a list of two candidates: both were relocated, so the
\* tree now differs from the one that was listed.
C8_Witness ==
    /\ pc = "moving"
    /\ Len(patient_dcm_files) = 2
    /\ i = 3
    /\ Relocated = {1, 2}
    /\ fs # history.fsPass

(***************************************************************************)
(* C9                                                                      *)
(***************************************************************************)
\* C9: the after-count that process_patient_directory logs is the number of
\* regular files whose name ends with the extension directly in the patient
\* directory, in the state after the moves of that patient.
C9_AfterCountIsMatchingFiles ==
    (pc = "loop" /\ report.kind = "counts")
        => report.after =
               Cardinality({p \in DOMAIN fs : /\ Len(p) = 2
                                              /\ <<p[1]>> = <<report.patient>>
                                              /\ endswith(p[2], file_extension)})

(***************************************************************************)
(* C10                                                                     *)
(***************************************************************************)
\* C10: at the end of the loop of a pass in which no move failed, every
\* candidate has an entry of its basename at the top level of the patient
\* directory; every candidate is either there with its content, or at its
\* original path with its content while the top-level entry of its basename
\* is another one; the patient's subtree holds as many files as when it was
\* listed; and nothing outside the patient's subtree has changed.
C10_Flattened ==
    (pc = "moving" /\ i > Len(patient_dcm_files) /\ NoFailure) =>
        /\ \A n \in 1..Len(patient_dcm_files) :
               LET c == patient_dcm_files[n] IN
               /\ Present(fs, TopOf(c))
               /\ \/ (TopOf(c) \in DOMAIN fs /\ fs[TopOf(c)] = history.fsPass[c])
                  \/ /\ c \in DOMAIN fs /\ fs[c] = history.fsPass[c]
                     /\ Present(history.fsPass, TopOf(c)) \/ \E m \in 1..(n - 1) :
                            /\ m \in Relocated
                            /\ TopOf(patient_dcm_files[m]) = TopOf(c)
        /\ Cardinality(Under(fs, patients[k])) = Cardinality(Under(history.fsPass, patients[k]))
        /\ \A p \in DOMAIN fs \cup DOMAIN history.fsPass :
               p[1] # patients[k] =>
                   (p \in DOMAIN fs /\ p \in DOMAIN history.fsPass /\ fs[p] = history.fsPass[p])

\* The loop is over with no failure: one candidate was relocated and another
\* one of the same patient was left in its nested place.
C10_Witness ==
    /\ pc = "moving"
    /\ i > Len(patient_dcm_files)
    /\ NoFailure
    /\ \E n \in Relocated : TRUE
    /\ \E n \in InPlace : Len(patient_dcm_files[n]) > 2

====
